---- MODULE Spec2Model ----
(***************************************************************************)
(* Model of the diagnosis engine of the HealthCare repository:             *)
(*   src/HealthCare/src/train.py  HealthcareDiagnosticsSystem (weighted    *)
(*                                scoring, optional classifier, merger)    *)
(*   src/HealthCare/app/app.py    HealthcareDiagnosticsApp (simple scoring *)
(*                                over the built-in demo data)             *)
(* A Python str is a sequence of one-character strings.  A float score is  *)
(* a fixed-point integer in units of 1/Scale.                              *)
(***************************************************************************)
EXTENDS Integers, Sequences, FiniteSets, TLC

VARIABLES
    program,             \* which entry point runs: "train", "app" or "normalizer"
    df,                  \* train.py self.df: rows [Name, Symptoms, Treatments]
    symptom_freq,        \* self.symptom_freq: insertion-ordered <<token, count>> pairs
    disease_categories,  \* train.py self.disease_categories: insertion-ordered <<name, category>>
    mlb,                 \* train.py self.mlb
    classifier,          \* train.py self.classifier
    model,               \* app.py self.model
    call,                \* the last call: its name, arguments and local values
    result               \* what the last call returned

vars == <<program, df, symptom_freq, disease_categories, mlb, classifier, model, call, result>>

----------------------------------------------------------------------------
(* Python values and str methods *)

None == [type |-> "none", val |-> <<>>]
NaN == [type |-> "nan", val |-> <<>>]
Str(s) == [type |-> "str", val |-> s]
Bool(b) == [type |-> "bool", val |-> b]
\* a Python list, where a call returns a list or None
List(xs) == [type |-> "list", val |-> xs]

UpperLetters == <<"A", "B", "C", "D", "E", "F", "G", "H", "I", "J", "K", "L", "M",
                  "N", "O", "P", "Q", "R", "S", "T", "U", "V", "W", "X", "Y", "Z">>
LowerLetters == <<"a", "b", "c", "d", "e", "f", "g", "h", "i", "j", "k", "l", "m",
                  "n", "o", "p", "q", "r", "s", "t", "u", "v", "w", "x", "y", "z">>
DigitChars == {"0", "1", "2", "3", "4", "5", "6", "7", "8", "9"}

IsUpper(c) == \E i \in 1..26 : c = UpperLetters[i]
IsLower(c) == \E i \in 1..26 : c = LowerLetters[i]

\* re \s
IsSpace(c) == c \in {" ", "\t", "\n"}

\* re \w
IsWord(c) == IsUpper(c) \/ IsLower(c) \/ c \in DigitChars \/ c = "_"

LowerChar(c) ==
    IF IsUpper(c) THEN LowerLetters[CHOOSE i \in 1..26 : c = UpperLetters[i]] ELSE c

\* str.lower()
lower(s) == [i \in 1..Len(s) |-> LowerChar(s[i])]

RECURSIVE lstrip(_)
lstrip(s) == IF s # <<>> /\ IsSpace(Head(s)) THEN lstrip(Tail(s)) ELSE s

RECURSIVE rstrip(_)
rstrip(s) == IF s # <<>> /\ IsSpace(s[Len(s)]) THEN rstrip(SubSeq(s, 1, Len(s) - 1)) ELSE s

\* str.strip()
strip(s) == rstrip(lstrip(s))

\* str.split(sep): "" splits into the one piece ""
RECURSIVE split(_, _)
split(s, sep) ==
    IF \E i \in 1..Len(s) : s[i] = sep
    THEN LET i == CHOOSE k \in 1..Len(s) : s[k] = sep /\ \A j \in 1..(k - 1) : s[j] # sep
         IN  <<SubSeq(s, 1, i - 1)>> \o split(SubSeq(s, i + 1, Len(s)), sep)
    ELSE <<s>>

\* str.startswith(prefix)
startswith(s, prefix) == Len(prefix) <= Len(s) /\ SubSeq(s, 1, Len(prefix)) = prefix

\* whether needle is a substring of s (Python's `needle in s`)
contains(s, needle) ==
    \E i \in 0..(Len(s) - Len(needle)) : SubSeq(s, i + 1, i + Len(needle)) = needle

\* sep.join(pieces)
RECURSIVE join(_, _)
join(pieces, sep) ==
    IF pieces = <<>> THEN <<>>
    ELSE IF Len(pieces) = 1 THEN pieces[1]
    ELSE pieces[1] \o sep \o join(Tail(pieces), sep)

\* re.sub(r'[^\w\s]', '', s)
StripPunctuation(s) == SelectSeq(s, LAMBDA c : IsWord(c) \/ IsSpace(c))

ToSet(seq) == {seq[i] : i \in 1..Len(seq)}

\* the order of str values: by code point, shorter prefix first
CodePoints == <<"\t", "\n", " ", "!", ".", "-", "0", "1", "2", "3", "4", "5", "6", "7", "8", "9", "?">>
              \o UpperLetters \o <<"_">> \o LowerLetters
Ord(c) == CHOOSE i \in 1..Len(CodePoints) : CodePoints[i] = c

RECURSIVE StrLess(_, _)
StrLess(s, t) ==
    IF t = <<>> THEN FALSE
    ELSE IF s = <<>> THEN TRUE
    ELSE IF Head(s) = Head(t) THEN StrLess(Tail(s), Tail(t))
    ELSE Ord(Head(s)) < Ord(Head(t))

\* the elements of a set of str in ascending order
RECURSIVE SortedStrs(_)
SortedStrs(S) ==
    IF S = {} THEN <<>>
    ELSE LET m == CHOOSE x \in S : \A y \in S \ {x} : StrLess(x, y)
         IN  <<m>> \o SortedStrs(S \ {m})

Reverse(seq) == [i \in 1..Len(seq) |-> seq[Len(seq) + 1 - i]]

\* list(set(...)): the distinct elements in the set's iteration order, which for str
\* depends on the process's hash seed; h selects one of the orders explored
HashOrders == {1, 2}
list_set(S, h) == IF h = 1 THEN SortedStrs(S) ELSE Reverse(SortedStrs(S))

----------------------------------------------------------------------------
(* Symptom Normalizer *)

\* the list comprehensions shared by both cleaning paths:
\* split on commas, strip and lower each piece, drop punctuation, keep len > 2
CleanPieces(text) ==
    LET pieces == split(text, ",")
        symptoms1 == [i \in 1..Len(pieces) |-> lower(strip(pieces[i]))]
        symptoms2 == [i \in 1..Len(symptoms1) |-> StripPunctuation(symptoms1[i])]
    IN  SelectSeq(symptoms2, LAMBDA s : s # <<>> /\ Len(s) > 2)

\* app.py clean_input_symptoms; the returned list(set(...)) as the set of its elements
clean_input_symptoms(symptoms_text) ==
    IF symptoms_text.type # "str" \/ symptoms_text.val = <<>>
    THEN {}
    ELSE ToSet(CleanPieces(symptoms_text.val))

stop_words ==
    { <<"a", "n", "d">>, <<"o", "r">>, <<"t", "h", "e">>, <<"o", "f">>, <<"i", "n">>,
      <<"t", "o">>, <<"w", "i", "t", "h">>, <<"w", "i", "t", "h", "o", "u", "t">>,
      <<"d", "u", "e">>, <<"s", "u", "c", "h">>, <<"a", "s">> }

\* mutant: the training-data path keeps stop words as the live-query path does
clean_symptoms_KeepingStopWords(symptom_text) ==
    IF symptom_text.type = "nan"
    THEN {}
    ELSE ToSet(CleanPieces(symptom_text.val))

\* train.py clean_symptoms (nested in load_and_preprocess); the returned
\* list(set(...)) as the set of its elements
clean_symptoms(symptom_text) ==
    IF symptom_text.type = "nan"
    THEN {}
    ELSE LET symptoms == CleanPieces(symptom_text.val)
         IN  ToSet(SelectSeq(symptoms, LAMBDA s : s \notin stop_words))

----------------------------------------------------------------------------
(* str literals: symptom tokens, disease names *)

s_cough == <<"c", "o", "u", "g", "h">>
s_runny_nose == <<"r", "u", "n", "n", "y", " ", "n", "o", "s", "e">>
s_sneezing == <<"s", "n", "e", "e", "z", "i", "n", "g">>
s_sore_throat == <<"s", "o", "r", "e", " ", "t", "h", "r", "o", "a", "t">>
s_fatigue == <<"f", "a", "t", "i", "g", "u", "e">>
s_mild_fever == <<"m", "i", "l", "d", " ", "f", "e", "v", "e", "r">>
s_fever == <<"f", "e", "v", "e", "r">>
s_body_aches == <<"b", "o", "d", "y", " ", "a", "c", "h", "e", "s">>
s_headache == <<"h", "e", "a", "d", "a", "c", "h", "e">>
s_chills == <<"c", "h", "i", "l", "l", "s">>
s_nausea == <<"n", "a", "u", "s", "e", "a">>
s_light_sensitivity == <<"l", "i", "g", "h", "t", " ", "s", "e", "n", "s", "i", "t", "i", "v", "i", "t", "y">>
s_vision_changes == <<"v", "i", "s", "i", "o", "n", " ", "c", "h", "a", "n", "g", "e", "s">>
s_dizziness == <<"d", "i", "z", "z", "i", "n", "e", "s", "s">>
s_vomiting == <<"v", "o", "m", "i", "t", "i", "n", "g">>
s_diarrhea == <<"d", "i", "a", "r", "r", "h", "e", "a">>
s_stomach_cramps == <<"s", "t", "o", "m", "a", "c", "h", " ", "c", "r", "a", "m", "p", "s">>
s_loss_of_appetite == <<"l", "o", "s", "s", " ", "o", "f", " ", "a", "p", "p", "e", "t", "i", "t", "e">>
s_itchy_eyes == <<"i", "t", "c", "h", "y", " ", "e", "y", "e", "s">>
s_nasal_congestion == <<"n", "a", "s", "a", "l", " ", "c", "o", "n", "g", "e", "s", "t", "i", "o", "n">>
s_postnasal_drip == <<"p", "o", "s", "t", "n", "a", "s", "a", "l", " ", "d", "r", "i", "p">>
s_persistent_cough == <<"p", "e", "r", "s", "i", "s", "t", "e", "n", "t", " ", "c", "o", "u", "g", "h">>
s_chest_congestion == <<"c", "h", "e", "s", "t", " ", "c", "o", "n", "g", "e", "s", "t", "i", "o", "n">>
s_shortness_of_breath == <<"s", "h", "o", "r", "t", "n", "e", "s", "s", " ", "o", "f", " ", "b", "r", "e", "a", "t", "h">>
s_chest_pain == <<"c", "h", "e", "s", "t", " ", "p", "a", "i", "n">>
s_abdominal_pain == <<"a", "b", "d", "o", "m", "i", "n", "a", "l", " ", "p", "a", "i", "n">>
s_rash == <<"r", "a", "s", "h">>
s_itching == <<"i", "t", "c", "h", "i", "n", "g">>
s_xyz == <<"x", "y", "z">>
s_qwerty == <<"q", "w", "e", "r", "t", "y">>

n_Common_Cold == <<"C", "o", "m", "m", "o", "n", " ", "C", "o", "l", "d">>
n_Influenza == <<"I", "n", "f", "l", "u", "e", "n", "z", "a">>
n_Migraine == <<"M", "i", "g", "r", "a", "i", "n", "e">>
n_Food_Poisoning == <<"F", "o", "o", "d", " ", "P", "o", "i", "s", "o", "n", "i", "n", "g">>
n_Allergic_Rhinitis == <<"A", "l", "l", "e", "r", "g", "i", "c", " ", "R", "h", "i", "n", "i", "t", "i", "s">>
n_Bronchitis == <<"B", "r", "o", "n", "c", "h", "i", "t", "i", "s">>
n_Flu == <<"F", "l", "u">>
n_Cold == <<"C", "o", "l", "d">>
n_Angina == <<"A", "n", "g", "i", "n", "a">>
n_Gastritis == <<"G", "a", "s", "t", "r", "i", "t", "i", "s">>
n_Acne == <<"A", "c", "n", "e">>
n_Eczema == <<"E", "c", "z", "e", "m", "a">>

categories ==
    << <<"Infectious", <<<<"f", "e", "v", "e", "r">>,
            <<"i", "n", "f", "e", "c", "t", "i", "o", "n">>,
            <<"v", "i", "r", "a", "l">>,
            <<"b", "a", "c", "t", "e", "r", "i", "a", "l">>,
            <<"f", "u", "n", "g", "a", "l">>>>>>,
       <<"Cardiovascular", <<<<"c", "h", "e", "s", "t", " ", "p", "a", "i", "n">>,
            <<"h", "e", "a", "r", "t">>,
            <<"b", "l", "o", "o", "d", " ", "p", "r", "e", "s", "s", "u", "r", "e">>,
            <<"p", "a", "l", "p", "i", "t", "a", "t", "i", "o", "n", "s">>>>>>,
       <<"Neurological", <<<<"h", "e", "a", "d", "a", "c", "h", "e">>,
            <<"s", "e", "i", "z", "u", "r", "e">>,
            <<"n", "u", "m", "b", "n", "e", "s", "s">>,
            <<"t", "i", "n", "g", "l", "i", "n", "g">>,
            <<"c", "o", "n", "f", "u", "s", "i", "o", "n">>>>>>,
       <<"Gastrointestinal", <<<<"a", "b", "d", "o", "m", "i", "n", "a", "l", " ", "p", "a", "i", "n">>,
            <<"n", "a", "u", "s", "e", "a">>,
            <<"v", "o", "m", "i", "t", "i", "n", "g">>,
            <<"d", "i", "a", "r", "r", "h", "e", "a">>>>>>,
       <<"Respiratory", <<<<"c", "o", "u", "g", "h">>,
            <<"s", "h", "o", "r", "t", "n", "e", "s", "s", " ", "o", "f", " ", "b", "r", "e", "a", "t", "h">>,
            <<"w", "h", "e", "e", "z", "i", "n", "g">>,
            <<"c", "h", "e", "s", "t", " ", "c", "o", "n", "g", "e", "s", "t", "i", "o", "n">>>>>>,
       <<"Musculoskeletal", <<<<"j", "o", "i", "n", "t", " ", "p", "a", "i", "n">>,
            <<"m", "u", "s", "c", "l", "e", " ", "p", "a", "i", "n">>,
            <<"s", "t", "i", "f", "f", "n", "e", "s", "s">>,
            <<"s", "w", "e", "l", "l", "i", "n", "g">>>>>>,
       <<"Dermatological", <<<<"r", "a", "s", "h">>,
            <<"i", "t", "c", "h", "i", "n", "g">>,
            <<"s", "k", "i", "n">>,
            <<"r", "e", "d", "n", "e", "s", "s">>>>>>,
       <<"Endocrine", <<<<"f", "a", "t", "i", "g", "u", "e">>,
            <<"w", "e", "i", "g", "h", "t">>,
            <<"t", "h", "i", "r", "s", "t">>,
            <<"u", "r", "i", "n", "a", "t", "i", "o", "n">>>>>>,
       <<"Other", <<>>>> >>

\* a free-text cell that is only copied, held as a one-element sequence
Text(t) == <<t>>

----------------------------------------------------------------------------
(* Fixed-point arithmetic for the float scores *)

\* one unit of score
Scale == 1000000

\* the minimum threshold 0.1 of app.py:478 and train.py:162, train.py:200
Threshold == Scale \div 10

\* 1/np.log(f + 1) in units of 1/Scale, rounded down, for f = 1..260
InvLogTable ==
    <<1442695, 910239, 721347, 621334, 558110, 513898, 480898, 455119, 434294, 417032,
      402429, 389871, 378923, 369269, 360673, 352956, 345976, 339623, 333808, 328458,
      323515, 318928, 314657, 310667, 306927, 303413, 300101, 296974, 294014, 291206,
      288539, 285999, 283578, 281266, 279055, 276937, 274907, 272958, 271085, 269282,
      267546, 265872, 264257, 262697, 261189, 259730, 258317, 256949, 255622, 254334,
      253084, 251870, 250690, 249542, 248425, 247337, 246278, 245246, 244239, 243257,
      242298, 241363, 240449, 239556, 238683, 237829, 236994, 236177, 235377, 234594,
      233826, 233075, 232338, 231616, 230907, 230212, 229531, 228861, 228204, 227559,
      226926, 226303, 225692, 225090, 224499, 223918, 223347, 222784, 222231, 221687,
      221151, 220623, 220104, 219593, 219089, 218593, 218104, 217622, 217147, 216679,
      216217, 215762, 215313, 214870, 214434, 214003, 213577, 213158, 212744, 212335,
      211931, 211533, 211139, 210751, 210367, 209988, 209613, 209243, 208877, 208516,
      208158, 207805, 207456, 207111, 206770, 206432, 206099, 205769, 205442, 205119,
      204800, 204484, 204171, 203862, 203555, 203252, 202952, 202655, 202361, 202070,
      201782, 201497, 201214, 200935, 200657, 200383, 200111, 199842, 199575, 199311,
      199049, 198789, 198532, 198277, 198025, 197775, 197527, 197281, 197037, 196795,
      196556, 196319, 196083, 195850, 195618, 195389, 195161, 194935, 194711, 194489,
      194269, 194050, 193833, 193618, 193405, 193193, 192983, 192775, 192568, 192363,
      192159, 191957, 191756, 191557, 191360, 191164, 190969, 190776, 190584, 190393,
      190204, 190016, 189830, 189645, 189461, 189279, 189097, 188917, 188739, 188561,
      188385, 188210, 188036, 187863, 187692, 187521, 187352, 187184, 187016, 186850,
      186686, 186522, 186359, 186197, 186036, 185877, 185718, 185560, 185403, 185248,
      185093, 184939, 184786, 184634, 184483, 184333, 184184, 184035, 183888, 183741,
      183596, 183451, 183307, 183164, 183021, 182880, 182739, 182599, 182460, 182322,
      182184, 182047, 181911, 181776, 181642, 181508, 181375, 181243, 181111, 180980,
      180850, 180721, 180592, 180464, 180336, 180210, 180084, 179958, 179834, 179710>>

InvLog(f) == InvLogTable[f]

\* sum(...) over a list of numbers
RECURSIVE SumSeq(_)
SumSeq(xs) == IF xs = <<>> THEN 0 ELSE Head(xs) + SumSeq(Tail(xs))

\* Python's seq[:n]
Take(seq, n) ==
    IF n >= 0 THEN SubSeq(seq, 1, IF n < Len(seq) THEN n ELSE Len(seq))
    ELSE SubSeq(seq, 1, IF Len(seq) + n > 0 THEN Len(seq) + n ELSE 0)

\* list.sort(key=Key, reverse=True) and sorted(..., reverse=True): descending by
\* key, elements with equal keys keep their original order
SortDescending(seq, Key(_)) ==
    LET n == Len(seq)
        \* the 1-based position of seq[i] in the sorted list
        rank(i) == 1 + Cardinality({j \in 1..n :
                        \/ Key(seq[j]) > Key(seq[i])
                        \/ Key(seq[j]) = Key(seq[i]) /\ j < i})
    IN  [r \in 1..n |-> seq[CHOOSE i \in 1..n : rank(i) = r]]

----------------------------------------------------------------------------
(* Insertion-ordered dict: a sequence of <<key, value>> pairs with distinct keys *)

DictHas(d, k) == \E i \in 1..Len(d) : d[i][1] = k
DictGet(d, k, default) ==
    IF DictHas(d, k) THEN d[CHOOSE i \in 1..Len(d) : d[i][1] = k][2] ELSE default
\* d[k] = v: a new key is appended, an existing key keeps its position
DictSet(d, k, v) ==
    IF DictHas(d, k)
    THEN [i \in 1..Len(d) |-> IF d[i][1] = k THEN <<k, v>> ELSE d[i]]
    ELSE Append(d, <<k, v>>)
DictKeys(d) == [i \in 1..Len(d) |-> d[i][1]]
DictValues(d) == [i \in 1..Len(d) |-> d[i][2]]

----------------------------------------------------------------------------
(* train.py: construction of HealthcareDiagnosticsSystem *)

NoTreatment == Text("No treatment information available")

\* DataFrame.drop_duplicates(): a row equal to an earlier row is dropped
drop_duplicates(rows) ==
    LET keep == {i \in 1..Len(rows) : \A j \in 1..(i - 1) : rows[j] # rows[i]}
        idx == [k \in 1..Cardinality(keep) |->
                   CHOOSE i \in keep : Cardinality({j \in keep : j < i}) = k - 1]
    IN  [k \in 1..Cardinality(keep) |-> rows[idx[k]]]

\* load_and_preprocess: rows are the parsed CSV rows, h the hash order of list(set(...))
load_and_preprocess(rows, h) ==
    LET d == drop_duplicates(rows)
    IN  [i \in 1..Len(d) |->
            [Name |-> d[i].Name,
             Symptoms |-> list_set(clean_symptoms(d[i].Symptoms), h),
             Treatments |-> IF d[i].Treatments.type = "nan" THEN NoTreatment
                            ELSE d[i].Treatments.val]]

\* Counter(all_symptoms): counts in first-seen order
RECURSIVE Counter(_)
Counter(items) ==
    IF items = <<>> THEN <<>>
    ELSE LET c == Counter(SubSeq(items, 1, Len(items) - 1))
             x == items[Len(items)]
         IN  DictSet(c, x, DictGet(c, x, 0) + 1)

RECURSIVE Concat(_)
Concat(lists) == IF lists = <<>> THEN <<>> ELSE Head(lists) \o Concat(Tail(lists))

calculate_symptom_frequency(frame) ==
    Counter(Concat([i \in 1..Len(frame) |-> frame[i].Symptoms]))

\* the category of one row: the first category, in table order, one of whose
\* keywords is a substring of the joined symptom text
CategoryOf(symptoms) ==
    LET symptoms_text == lower(join(symptoms, <<" ">>))
        hits == {c \in 1..Len(categories) :
                    \E k \in 1..Len(categories[c][2]) :
                        contains(symptoms_text, categories[c][2][k])}
    IN  IF hits = {} THEN "Other"
        ELSE categories[CHOOSE c \in hits : \A o \in hits : c <= o][1]

\* categorize_diseases: disease_categories[row['Name']] is assigned row by row
RECURSIVE categorize_diseases(_)
categorize_diseases(frame) ==
    IF frame = <<>> THEN <<>>
    ELSE LET row == frame[Len(frame)]
         IN  DictSet(categorize_diseases(SubSeq(frame, 1, Len(frame) - 1)),
                     row.Name, CategoryOf(row.Symptoms))

----------------------------------------------------------------------------
(* train.py: Similarity Scorer (weighted mode) *)

\* sum(1/np.log(self.symptom_freq.get(symptom, 1) + 1)
\*     for symptom in disease_symptoms if symptom in input_symptoms)
symptom_weights(disease_symptoms, input_symptoms) ==
    SumSeq([i \in 1..Len(disease_symptoms) |->
               IF disease_symptoms[i] \in input_symptoms
               THEN InvLog(DictGet(symptom_freq, disease_symptoms[i], 1))
               ELSE 0])

\* mutant: the quotient is taken the other way round
jaccard_sim_Inverted(intersection, union) ==
    IF intersection > 0 THEN (union * Scale) \div intersection ELSE 0

\* intersection / union if union > 0 else 0
jaccard_sim(intersection, union) ==
    IF union > 0 THEN (intersection * Scale) \div union ELSE 0

\* intersection / len(input_symptoms) if input_symptoms else 0
coverage(intersection, input_symptoms) ==
    IF input_symptoms # <<>> THEN (intersection * Scale) \div Len(input_symptoms) ELSE 0

\* jaccard_sim * 0.4 + coverage * 0.3 + symptom_weights * 0.3
weighted_score(jaccard, cover, weights) == (4 * jaccard + 3 * cover + 3 * weights) \div 10

\* the result dict similarity_search builds for one row
\* mutant: match_count counts the query's tokens instead of the shared ones
SimilarityResult_CountsQuery(row, input_symptoms) ==
    LET disease_symptoms == row.Symptoms
        common == ToSet(input_symptoms) \cap ToSet(disease_symptoms)
        intersection == Cardinality(common)
        union == Cardinality(ToSet(input_symptoms) \cup ToSet(disease_symptoms))
    IN  [disease |-> row.Name,
         similarity |-> weighted_score(jaccard_sim(intersection, union),
                                       coverage(intersection, input_symptoms),
                                       symptom_weights(disease_symptoms, ToSet(input_symptoms))),
         matching_symptoms |-> common,
         all_symptoms |-> disease_symptoms,
         treatments |-> row.Treatments,
         category |-> DictGet(disease_categories, row.Name, "Other"),
         match_count |-> Cardinality(ToSet(input_symptoms)),
         method |-> "similarity"]

SimilarityResult(row, input_symptoms) ==
    LET disease_symptoms == row.Symptoms
        common == ToSet(input_symptoms) \cap ToSet(disease_symptoms)
        intersection == Cardinality(common)
        union == Cardinality(ToSet(input_symptoms) \cup ToSet(disease_symptoms))
    IN  [disease |-> row.Name,
         similarity |-> weighted_score(jaccard_sim(intersection, union),
                                       coverage(intersection, input_symptoms),
                                       symptom_weights(disease_symptoms, ToSet(input_symptoms))),
         matching_symptoms |-> common,
         all_symptoms |-> disease_symptoms,
         treatments |-> row.Treatments,
         category |-> DictGet(disease_categories, row.Name, "Other"),
         match_count |-> intersection,
         method |-> "similarity"]

\* mutant: the threshold test lets a score of exactly 0.1 through
AboveThreshold_AtLeast(r) == r.similarity >= Threshold

\* weighted_score > 0.1
AboveThreshold(r) == r.similarity > Threshold

Similarity(r) == r.similarity

similarity_search(input_symptoms, top_n) ==
    LET cleaned == [i \in 1..Len(input_symptoms) |-> lower(strip(input_symptoms[i]))]
        rows == SelectSeq(df, LAMBDA row : row.Symptoms # <<>>)
        scored == [i \in 1..Len(rows) |-> SimilarityResult(rows[i], cleaned)]
        results == SelectSeq(scored, AboveThreshold)
    IN  Take(SortDescending(results, Similarity), top_n)

----------------------------------------------------------------------------
(* train.py: Frequency Index suggestions *)

Frequency(pair) == pair[2]

\* mutant: the matching tokens are returned in index order, not by frequency
get_symptom_suggestions_Unsorted(prefix, max_suggestions) ==
    LET p == strip(lower(prefix))
        suggestions == SelectSeq(symptom_freq, LAMBDA pair : startswith(pair[1], p))
    IN  DictKeys(Take(suggestions, max_suggestions))

get_symptom_suggestions(prefix, max_suggestions) ==
    LET p == strip(lower(prefix))
        suggestions == SelectSeq(symptom_freq, LAMBDA pair : startswith(pair[1], p))
    IN  DictKeys(Take(SortDescending(suggestions, Frequency), max_suggestions))

\* get_disease_info: the first row whose name equals disease_name ignoring case,
\* with the category the map holds for that row's name; None when there is none
get_disease_info(disease_name) ==
    LET matches == SelectSeq(df, LAMBDA row : lower(row.Name) = lower(disease_name))
        disease == matches[1]
    IN  IF matches # <<>>
        THEN [type |-> "dict",
              val |-> [name |-> disease.Name,
                       symptoms |-> disease.Symptoms,
                       treatments |-> disease.Treatments,
                       category |-> DictGet(disease_categories, disease.Name, "Other"),
                       symptom_count |-> Len(disease.Symptoms)]]
        ELSE None

----------------------------------------------------------------------------
(* train.py: Classifier Scorer *)

\* mutant: every name of the catalog counts as common
common_diseases_AnyCount == {df[i].Name : i \in 1..Len(df)}

\* names with disease_counts >= 2
common_diseases ==
    {n \in {df[i].Name : i \in 1..Len(df)} :
        Cardinality({i \in 1..Len(df) : df[i].Name = n}) >= 2}

\* the least number of common diseases train_classifier trains on (train.py:111)
MinCommonDiseases == 5

filtered_df == SelectSeq(df, LAMBDA row : row.Name \in common_diseases)

\* MultiLabelBinarizer().fit(filtered_df['Symptoms']): classes_ are the sorted tokens
FittedMlb ==
    [type |-> "mlb",
     classes_ |-> SortedStrs(UNION {ToSet(filtered_df[i].Symptoms) : i \in 1..Len(filtered_df)})]

\* The fitted RandomForestClassifier is a function from feature vectors to probability
\* distributions over classes_ that the model cannot compute; a fitted forest is one
\* of a family of such functions, named by a shape (the probabilities, largest first,
\* the rest 0) and a rotation of the shape over the classes.
MaxRot == 2

\* the weighted score of a row {fever, chills} for the query [fever] when fever
\* occurs in two rows: a probability that ties with a similarity score
TieProb == weighted_score(jaccard_sim(1, 2), Scale, InvLog(2))

ProbShapes ==
    { <<600000, 300000, 100000>>,
      <<250000, 250000, 250000, 250000>>,
      <<TieProb, Scale - TieProb>>,
      <<200000, 200000, 200000, 200000, 200000>> }

FittedForests ==
    {[type |-> "forest", classes_ |-> SortedStrs(common_diseases), shape |-> s, rot |-> r] :
        s \in ProbShapes, r \in 0..MaxRot}

\* self.mlb.transform([input_symptoms]): the known tokens present in the input
\* (unknown tokens are ignored)
transform(input_symptoms) == ToSet(mlb.classes_) \cap ToSet(input_symptoms)

\* self.classifier.predict_proba(input_vector)[0], indexed like classes_
predict_proba(input_vector) ==
    LET n == Len(classifier.classes_)
        shape == classifier.shape
    IN  [i \in 1..n |->
            LET k == ((i - 1 + classifier.rot + Cardinality(input_vector)) % n) + 1
            IN  IF k <= Len(shape) THEN shape[k] ELSE 0]

\* mutant: the indices are left in ascending order of probability
argsort_ascending(probabilities) ==
    LET n == Len(probabilities)
        rank(i) == 1 + Cardinality({j \in 1..n :
                        \/ probabilities[j] < probabilities[i]
                        \/ probabilities[j] = probabilities[i] /\ j < i})
    IN  [r \in 1..n |-> CHOOSE i \in 1..n : rank(i) = r]

\* np.argsort(probabilities)[::-1]: indices by descending probability; numpy sorts
\* fewer than 17 elements by insertion, so equal probabilities come out, after the
\* reversal, with the larger index first
argsort_reversed(probabilities) ==
    LET n == Len(probabilities)
        rank(i) == 1 + Cardinality({j \in 1..n :
                        \/ probabilities[j] > probabilities[i]
                        \/ probabilities[j] = probabilities[i] /\ j > i})
    IN  [r \in 1..n |-> CHOOSE i \in 1..n : rank(i) = r]

\* the result dict predict_with_classifier builds for one predicted disease
ClassificationResult(disease, score) ==
    LET disease_info == df[CHOOSE i \in 1..Len(df) :
                              df[i].Name = disease /\ \A j \in 1..(i - 1) : df[j].Name # disease]
    IN  [disease |-> disease,
         similarity |-> score,
         method |-> "classification",
         treatments |-> disease_info.Treatments,
         symptoms |-> disease_info.Symptoms]

predict_with_classifier(input_symptoms) ==
    IF classifier.type = "none"
    THEN None
    ELSE LET probabilities == predict_proba(transform(input_symptoms))
             disease_indices == Take(argsort_reversed(probabilities), 3)
             top == [k \in 1..Len(disease_indices) |->
                        ClassificationResult(classifier.classes_[disease_indices[k]],
                                             probabilities[disease_indices[k]])]
         IN  List(SelectSeq(top, AboveThreshold))

----------------------------------------------------------------------------
(* train.py: Diagnosis Merger *)

\* for result in classifier_results: all_results[result['disease']] = result
RECURSIVE MergeClassifier(_)
MergeClassifier(results) ==
    IF results = <<>> THEN <<>>
    ELSE LET r == results[Len(results)]
         IN  DictSet(MergeClassifier(SubSeq(results, 1, Len(results) - 1)), r.disease, r)

\* mutant: a similarity result with an equal score also replaces
Replaces_OrEqual(all_results, r) ==
    \/ ~DictHas(all_results, r.disease)
    \/ r.similarity >= DictGet(all_results, r.disease, r).similarity

\* mutant: every similarity result replaces the entry of its name
Replaces_Always(all_results, r) == TRUE

\* if disease not in all_results or result['similarity'] > all_results[disease]['similarity']
Replaces(all_results, r) ==
    \/ ~DictHas(all_results, r.disease)
    \/ r.similarity > DictGet(all_results, r.disease, r).similarity

\* for result in similarity_results: ... all_results[disease] = result
RECURSIVE MergeSimilarity(_, _)
MergeSimilarity(all_results, results) ==
    IF results = <<>> THEN all_results
    ELSE LET r == Head(results)
         IN  MergeSimilarity(IF Replaces(all_results, r)
                             THEN DictSet(all_results, r.disease, r)
                             ELSE all_results,
                             Tail(results))

\* the all_results dict of diagnose
Merged(classifier_results, similarity_results) ==
    MergeSimilarity(IF classifier_results.type = "list" /\ classifier_results.val # <<>>
                    THEN MergeClassifier(classifier_results.val)
                    ELSE <<>>,
                    similarity_results)

\* mutant: the merged values are truncated without the final sort
diagnose_unsorted(input_symptoms, top_n) ==
    Take(DictValues(Merged(predict_with_classifier(input_symptoms),
                           similarity_search(input_symptoms, top_n * 2))), top_n)

diagnose(input_symptoms, top_n) ==
    LET classifier_results == predict_with_classifier(input_symptoms)
        similarity_results == similarity_search(input_symptoms, top_n * 2)
        all_results == Merged(classifier_results, similarity_results)
    IN  Take(SortDescending(DictValues(all_results), Similarity), top_n)

----------------------------------------------------------------------------
(* train.py: the datasets the system is constructed from *)

s_Fever == <<"F", "e", "v", "e", "r">>
s_the == <<"t", "h", "e">>
s_and == <<"a", "n", "d">>

\* one parsed CSV row: the symptoms as comma-separated text
Row(name, symptoms, treatments) ==
    [Name |-> name,
     Symptoms |-> IF symptoms = <<>> THEN NaN ELSE Str(join(symptoms, <<",", " ">>)),
     Treatments |-> treatments]

RowPool ==
    << Row(n_Flu, <<s_fever, s_cough, s_fatigue>>, Str(Text("Rest and fluids"))),
       Row(n_Flu, <<s_Fever, s_chills>>, Str(Text("Rest and fluids"))),
       Row(n_Cold, <<s_cough, s_sneezing>>, Str(Text("Rest"))),
       Row(n_Cold, <<s_cough, s_sore_throat>>, NaN),
       Row(n_Migraine, <<s_headache, s_nausea>>, Str(Text("Dark room"))),
       Row(n_Migraine, <<s_headache, s_dizziness>>, Str(Text("Pain relief"))),
       Row(n_Angina, <<s_chest_pain, s_fatigue>>, Str(Text("Nitrates"))),
       Row(n_Angina, <<s_chest_pain>>, Str(Text("Nitrates"))),
       Row(n_Angina, <<s_chest_pain>>, Str(Text("Nitrates"))),
       Row(n_Gastritis, <<s_nausea, s_vomiting>>, Str(Text("Antacids"))),
       Row(n_Gastritis, <<s_nausea, s_the, s_and, s_abdominal_pain \o <<".">>>>, NaN),
       Row(n_Acne, <<>>, Str(Text("Cleanser"))),
       Row(n_Acne, <<s_rash>>, Str(Text("Cleanser"))),
       Row(n_Eczema, <<s_rash, s_itching>>, Str(Text("Emollients"))) >>

\* the catalog of Scenario A
ScenarioA ==
    << Row(n_Common_Cold,
           <<s_cough, s_runny_nose, s_sneezing, s_sore_throat, s_fatigue, s_mild_fever>>,
           Str(Text("X"))),
       Row(n_Influenza,
           <<s_fever, s_body_aches, s_fatigue, s_cough, s_headache, s_chills, s_sore_throat>>,
           NaN) >>

n_FLU == <<"F", "L", "U">>

\* a catalog in which rows share a name, exactly and up to case, and differ in category
SharedNames ==
    << Row(n_Flu, <<s_cough, s_fatigue>>, Str(Text("Rest"))),
       Row(n_Flu, <<s_fever, s_chills>>, Str(Text("Fluids"))),
       Row(n_FLU, <<s_rash>>, NaN) >>

\* a catalog in which four rows of one name score above a row of another name for
\* the query [fever]
RepeatedName ==
    << Row(n_Flu, <<s_fever>>, Str(Text("Rest"))),
       Row(n_Flu, <<s_fever, s_chills>>, Str(Text("Rest"))),
       Row(n_Flu, <<s_fever, s_cough>>, Str(Text("Rest"))),
       Row(n_Flu, <<s_fever, s_fatigue>>, Str(Text("Rest"))),
       Row(n_Cold, <<s_fever, s_cough, s_sneezing, s_sore_throat>>, Str(Text("Rest"))) >>

\* the most rows of RowPool a dataset holds
MaxRows == 13

Datasets ==
    {SubSeq(RowPool, 1, n) : n \in 0..(IF MaxRows < Len(RowPool) THEN MaxRows ELSE Len(RowPool))}
    \cup {ScenarioA, SharedNames, RepeatedName}

----------------------------------------------------------------------------
(* train.py: the queries issued *)

\* the longest list of symptoms drawn from InputTokens
MaxInputLen == 2
\* the largest top_n and max_suggestions
MaxTopN == 2

InputTokens == {s_fever, s_cough, <<" ">> \o s_Fever, s_xyz}

InputLists ==
    UNION {[1..k -> InputTokens] : k \in 0..MaxInputLen}
    \cup { <<s_cough, s_runny_nose, s_sneezing>> }

Prefixes ==
    { <<>>, <<"f">>, <<" ", "f", " ">>, <<"f", "e">>, <<"F", "E", " ">>, <<"c", "h">>,
      <<"c", "o">>, <<"s">>, <<"x", "y">> }

\* the names looked up: of catalog rows in three cases, a proper prefix of one, the
\* empty name and an unknown one
LookupNames ==
    { n_Flu, lower(n_Flu), n_FLU, n_Acne, n_Common_Cold, SubSeq(n_Flu, 1, 2), <<>>, s_xyz }

----------------------------------------------------------------------------
(* train.py: the system as a state machine *)

\* no call is in progress: the last one has returned to its caller
Idle == [op |-> "idle"]

\* HealthcareDiagnosticsSystem.__init__
InitTrain ==
    /\ program = "train"
    /\ \E rows \in Datasets, h \in HashOrders :
        /\ df = load_and_preprocess(rows, h)
        /\ symptom_freq = calculate_symptom_frequency(load_and_preprocess(rows, h))
        /\ disease_categories = categorize_diseases(load_and_preprocess(rows, h))
    /\ mlb = None
    /\ classifier = None
    /\ model = None
    /\ call = Idle
    /\ result = None

\* train_classifier when len(common_diseases) < 5: returns False
TrainSkipped ==
    /\ program = "train" /\ call = Idle
    /\ Cardinality(common_diseases) < MinCommonDiseases
    /\ call' = [op |-> "train_classifier"]
    /\ result' = Bool(FALSE)
    /\ UNCHANGED <<program, df, symptom_freq, disease_categories, mlb, classifier, model>>

\* train_classifier otherwise: fits self.mlb and self.classifier, returns True
TrainFitted ==
    /\ program = "train" /\ call = Idle
    /\ classifier.type = "none"
    /\ Cardinality(common_diseases) >= MinCommonDiseases
    /\ mlb' = FittedMlb
    /\ classifier' \in FittedForests
    /\ call' = [op |-> "train_classifier"]
    /\ result' = Bool(TRUE)
    /\ UNCHANGED <<program, df, symptom_freq, disease_categories, model>>

PredictWithClassifier ==
    /\ program = "train" /\ call = Idle
    /\ \E input_symptoms \in InputLists :
        /\ call' = [op |-> "predict_with_classifier", input_symptoms |-> input_symptoms]
        /\ result' = predict_with_classifier(input_symptoms)
    /\ UNCHANGED <<program, df, symptom_freq, disease_categories, mlb, classifier, model>>

SimilaritySearch ==
    /\ program = "train" /\ call = Idle
    /\ \E input_symptoms \in InputLists, top_n \in 0..MaxTopN :
        /\ call' = [op |-> "similarity_search", input_symptoms |-> input_symptoms,
                    top_n |-> top_n]
        /\ result' = List(similarity_search(input_symptoms, top_n))
    /\ UNCHANGED <<program, df, symptom_freq, disease_categories, mlb, classifier, model>>

Diagnose ==
    /\ program = "train" /\ call = Idle
    /\ \E input_symptoms \in InputLists, top_n \in 0..MaxTopN :
        /\ call' = [op |-> "diagnose", input_symptoms |-> input_symptoms, top_n |-> top_n,
                    classifier_results |-> predict_with_classifier(input_symptoms),
                    similarity_results |-> similarity_search(input_symptoms, top_n * 2),
                    all_results |-> Merged(predict_with_classifier(input_symptoms),
                                           similarity_search(input_symptoms, top_n * 2))]
        /\ result' = List(diagnose(input_symptoms, top_n))
    /\ UNCHANGED <<program, df, symptom_freq, disease_categories, mlb, classifier, model>>

GetSymptomSuggestions ==
    /\ program = "train" /\ call = Idle
    /\ \E prefix \in Prefixes, max_suggestions \in 0..MaxTopN :
        /\ call' = [op |-> "get_symptom_suggestions", prefix |-> prefix,
                    max_suggestions |-> max_suggestions]
        /\ result' = List(get_symptom_suggestions(prefix, max_suggestions))
    /\ UNCHANGED <<program, df, symptom_freq, disease_categories, mlb, classifier, model>>

GetDiseaseInfo ==
    /\ program = "train" /\ call = Idle
    /\ \E disease_name \in LookupNames :
        /\ call' = [op |-> "get_disease_info", disease_name |-> disease_name]
        /\ result' = get_disease_info(disease_name)
    /\ UNCHANGED <<program, df, symptom_freq, disease_categories, mlb, classifier, model>>

\* the caller takes the returned value
Return ==
    /\ program \in {"train", "app"} /\ call # Idle
    /\ call' = Idle
    /\ result' = None
    /\ UNCHANGED <<program, df, symptom_freq, disease_categories, mlb, classifier, model>>

----------------------------------------------------------------------------
(* app.py: HealthcareDiagnosticsApp *)

\* load_demo_data: self.model['disease_data']
disease_data ==
    << [Name |-> n_Common_Cold,
        Symptoms |-> <<s_cough, s_runny_nose, s_sneezing, s_sore_throat, s_fatigue, s_mild_fever>>,
        Treatments |-> Text("Rest, hydration, over-the-counter cold medication, vitamin C")],
       [Name |-> n_Influenza,
        Symptoms |-> <<s_fever, s_body_aches, s_fatigue, s_cough, s_headache, s_chills,
                       s_sore_throat>>,
        Treatments |-> Text("Rest, fluids, antiviral medication if early, pain relievers")],
       [Name |-> n_Migraine,
        Symptoms |-> <<s_headache, s_nausea, s_light_sensitivity, s_vision_changes, s_dizziness>>,
        Treatments |-> Text("Rest in dark room, pain medication, migraine-specific drugs, hydration")],
       [Name |-> n_Food_Poisoning,
        Symptoms |-> <<s_nausea, s_vomiting, s_diarrhea, s_stomach_cramps, s_fever,
                       s_loss_of_appetite>>,
        Treatments |-> Text("Hydration, rest, bland diet, avoid dairy and fatty foods, electrolyte solutions")],
       [Name |-> n_Allergic_Rhinitis,
        Symptoms |-> <<s_sneezing, s_runny_nose, s_itchy_eyes, s_nasal_congestion,
                       s_postnasal_drip>>,
        Treatments |-> Text("Antihistamines, nasal sprays, allergen avoidance, decongestants")],
       [Name |-> n_Bronchitis,
        Symptoms |-> <<s_persistent_cough, s_chest_congestion, s_fatigue, s_shortness_of_breath,
                       s_fever>>,
        Treatments |-> Text("Rest, hydration, cough medicine, inhalers if needed, avoid irritants")] >>

\* load_demo_data: self.symptom_freq
demo_symptom_freq ==
    << <<s_headache, 180>>, <<s_fever, 160>>, <<s_cough, 220>>, <<s_fatigue, 250>>,
       <<s_nausea, 120>>, <<s_runny_nose, 190>>, <<s_sneezing, 160>>, <<s_sore_throat, 140>>,
       <<s_body_aches, 110>>, <<s_chills, 90>>, <<s_vomiting, 80>>, <<s_diarrhea, 70>>,
       <<s_stomach_cramps, 60>>, <<s_light_sensitivity, 40>>, <<s_vision_changes, 35>>,
       <<s_nasal_congestion, 130>>, <<s_itchy_eyes, 55>>, <<s_chest_congestion, 45>>,
       <<s_shortness_of_breath, 50>>, <<s_dizziness, 65>>, <<s_loss_of_appetite, 75>> >>

\* jaccard_sim * (1 + symptom_weights), the division by union done last
simple_score(intersection, union, weights) ==
    IF union > 0 THEN (intersection * (Scale + weights)) \div union ELSE 0

\* the result dict app.py diagnose builds for one disease
AppResult(disease, input_symptoms) ==
    LET disease_symptoms == disease.Symptoms
        common == input_symptoms \cap ToSet(disease_symptoms)
        intersection == Cardinality(common)
        union == Cardinality(input_symptoms \cup ToSet(disease_symptoms))
    IN  [disease |-> disease.Name,
         similarity |-> simple_score(intersection, union,
                                     symptom_weights(disease_symptoms, input_symptoms)),
         matching_symptoms |-> common,
         all_symptoms |-> disease_symptoms,
         treatments |-> disease.Treatments,
         match_count |-> intersection]

\* app.py diagnose
App_diagnose(input_text, top_n) ==
    IF model.type = "none"
    THEN <<>>
    ELSE LET input_symptoms == clean_input_symptoms(input_text)
             diseases == SelectSeq(model.disease_data, LAMBDA d : d.Symptoms # <<>>)
             scored == [i \in 1..Len(diseases) |-> AppResult(diseases[i], input_symptoms)]
             results == SelectSeq(scored, AboveThreshold)
         IN  IF input_symptoms = {} THEN <<>>
             ELSE Take(SortDescending(results, Similarity), top_n)

\* the shortest prefix app.py suggests for (app.py:439)
MinPrefixLen == 2

\* mutant: a token matches when it starts with the first character of the prefix
App_get_symptom_suggestions_FirstChar(prefix, max_suggestions) ==
    LET p == strip(lower(prefix))
        suggestions == SelectSeq(symptom_freq, LAMBDA pair : startswith(pair[1], SubSeq(p, 1, 1)))
    IN  IF p = <<>> \/ Len(p) < MinPrefixLen \/ symptom_freq = <<>> THEN <<>>
        ELSE DictKeys(Take(SortDescending(suggestions, Frequency), max_suggestions))

\* app.py get_symptom_suggestions
App_get_symptom_suggestions(prefix, max_suggestions) ==
    LET p == strip(lower(prefix))
        suggestions == SelectSeq(symptom_freq, LAMBDA pair : startswith(pair[1], p))
    IN  IF p = <<>> \/ Len(p) < MinPrefixLen \/ symptom_freq = <<>> THEN <<>>
        ELSE DictKeys(Take(SortDescending(suggestions, Frequency), max_suggestions))

\* the values of self.model the scoring is applied to: the demo data, its leading
\* records (the first two are the catalog of Scenario A), and None as __init__ sets it
AppModels ==
    {None} \cup {[type |-> "dict", disease_data |-> SubSeq(disease_data, 1, n)] :
                    n \in {0, 2, Len(disease_data)}}

\* the values of self.symptom_freq: the demo index, the index of Scenario D
\* (its entries for fever and fatigue), and {} as __init__ sets it
AppIndexes ==
    { demo_symptom_freq,
      SelectSeq(demo_symptom_freq, LAMBDA pair : pair[1] \in {s_fever, s_fatigue}),
      <<>> }

AppInputs ==
    { None, Str(<<>>),
      Str(join(<<s_cough, s_runny_nose, s_sneezing>>, <<",", " ">>)),
      Str(join(<<s_xyz, s_qwerty>>, <<",", " ">>)),
      Str(<<"a", "b", ",", " ", ".", ",", "!", "?">>),
      Str(join(<<s_Fever, s_fever, <<" ">> \o s_fever \o <<"!">>>>, <<",">>)),
      Str(join(<<s_headache, s_nausea, s_fever>>, <<",">>)),
      Str(s_fatigue) }

InitApp ==
    /\ program = "app"
    /\ model \in AppModels
    /\ symptom_freq \in AppIndexes
    /\ df = <<>> /\ disease_categories = <<>>
    /\ mlb = None /\ classifier = None
    /\ call = Idle
    /\ result = None

AppDiagnose ==
    /\ program = "app" /\ call = Idle
    /\ \E input_text \in AppInputs, top_n \in 0..MaxTopN :
        /\ call' = [op |-> "app.diagnose", input_text |-> input_text, top_n |-> top_n]
        /\ result' = List(App_diagnose(input_text, top_n))
    /\ UNCHANGED <<program, df, symptom_freq, disease_categories, mlb, classifier, model>>

AppGetSymptomSuggestions ==
    /\ program = "app" /\ call = Idle
    /\ \E prefix \in Prefixes, max_suggestions \in 0..MaxTopN :
        /\ call' = [op |-> "app.get_symptom_suggestions", prefix |-> prefix,
                    max_suggestions |-> max_suggestions]
        /\ result' = List(App_get_symptom_suggestions(prefix, max_suggestions))
    /\ UNCHANGED <<program, df, symptom_freq, disease_categories, mlb, classifier, model>>

Init == InitTrain \/ InitApp

Next ==
    \/ TrainSkipped
    \/ TrainFitted
    \/ PredictWithClassifier
    \/ SimilaritySearch
    \/ Diagnose
    \/ GetSymptomSuggestions
    \/ GetDiseaseInfo
    \/ AppDiagnose
    \/ AppGetSymptomSuggestions
    \/ Return

Spec == Init /\ [][Next]_vars

----------------------------------------------------------------------------
(* The normalizer applied to bounded raw text *)

MaxTextLen == 4

NormAlphabet == {"d", "u", "e", "D", " ", ".", ","}

ExtraTexts ==
    { <<"t", "h", "e", ",", " ", "D", "u", "e", ",", "c", "o", "u", "g", "h">>,
      <<"c", "o", "u", "g", "h", ",", " ", "C", "o", "u", "g", "h", "!", ",", "a", "b">>,
      <<"w", "i", "t", "h", ",", "f", "e", "v", "e", "r", ".", ",", " ", "a", "n", "d", " ">>,
      <<".", " ", "c", "o", "u", "g", "h", ",", "f", "e", "v", "e", "r", " ", "?">> }

RawTexts ==
    {None, NaN}
    \cup {Str(s) : s \in UNION {[1..k -> NormAlphabet] : k \in 0..MaxTextLen}}
    \cup {Str(s) : s \in ExtraTexts}

InitNorm ==
    /\ program = "normalizer"
    /\ df = <<>> /\ symptom_freq = <<>> /\ disease_categories = <<>>
    /\ mlb = None /\ classifier = None /\ model = None
    /\ call \in {[op |-> "raw", text |-> t] : t \in RawTexts}
    /\ result = None

\* normalize the raw text on the live-query path, then normalize the comma-joined output
NormalizeInput ==
    /\ program = "normalizer" /\ call.op = "raw" /\ call.text.type # "nan"
    /\ \E h \in HashOrders :
        LET tokens == clean_input_symptoms(call.text)
            joined == join(list_set(tokens, h), <<",">>)
        IN  /\ call' = [op |-> "clean_input_symptoms", text |-> call.text,
                        joined |-> joined,
                        again |-> clean_input_symptoms(Str(joined))]
            /\ result' = [type |-> "set", val |-> tokens]
    /\ UNCHANGED <<program, df, symptom_freq, disease_categories, mlb, classifier, model>>

\* the same on the training-data path
NormalizeTraining ==
    /\ program = "normalizer" /\ call.op = "raw" /\ call.text.type # "none"
    /\ \E h \in HashOrders :
        LET tokens == clean_symptoms(call.text)
            joined == join(list_set(tokens, h), <<",">>)
        IN  /\ call' = [op |-> "clean_symptoms", text |-> call.text,
                        joined |-> joined,
                        again |-> clean_symptoms(Str(joined))]
            /\ result' = [type |-> "set", val |-> tokens]
    /\ UNCHANGED <<program, df, symptom_freq, disease_categories, mlb, classifier, model>>

NextNorm == NormalizeInput \/ NormalizeTraining

SpecNorm == InitNorm /\ [][NextNorm]_vars

----------------------------------------------------------------------------
(* Query calls running in parallel threads on one initialized system *)

\* the request-serving threads
Threads == {1, 2}

\* the query calls a thread makes on the train.py system
ConcCalls ==
    {[op |-> "diagnose", pc |-> "called", input_symptoms |-> i, top_n |-> n,
      classifier_results |-> None, similarity_results |-> <<>>] :
        i \in {<<s_fever>>, <<s_cough, s_xyz>>}, n \in 1..MaxTopN}
    \cup {[op |-> "similarity_search", pc |-> "called", input_symptoms |-> <<s_cough>>,
           top_n |-> MaxTopN],
          [op |-> "predict_with_classifier", pc |-> "called", input_symptoms |-> <<s_fever>>],
          [op |-> "get_symptom_suggestions", pc |-> "called", prefix |-> <<"f", "e">>,
           max_suggestions |-> MaxTopN],
          [op |-> "get_disease_info", pc |-> "called", disease_name |-> lower(n_Flu)]}

\* the query calls a thread makes on the app.py object
ConcAppCalls ==
    {[op |-> "app.diagnose", pc |-> "called",
      input_text |-> Str(join(<<s_headache, s_nausea, s_fever>>, <<",">>)), top_n |-> MaxTopN],
     [op |-> "app.get_symptom_suggestions", pc |-> "called", prefix |-> <<"c", "o">>,
      max_suggestions |-> MaxTopN]}

\* an initialized system (with the classifier trained or not) or an initialized app,
\* and no call in progress
InitConc ==
    /\ \/ /\ program = "concurrent"
          /\ \E rows \in Datasets, h \in HashOrders :
              /\ df = load_and_preprocess(rows, h)
              /\ symptom_freq = calculate_symptom_frequency(load_and_preprocess(rows, h))
              /\ disease_categories = categorize_diseases(load_and_preprocess(rows, h))
          /\ \/ mlb = None /\ classifier = None
             \/ /\ Cardinality(common_diseases) >= MinCommonDiseases
                /\ mlb = FittedMlb
                /\ classifier \in FittedForests
          /\ model = None
       \/ /\ program = "concurrent app"
          /\ model \in AppModels
          /\ symptom_freq \in AppIndexes
          /\ df = <<>> /\ disease_categories = <<>>
          /\ mlb = None /\ classifier = None
    /\ call = [t \in Threads |-> Idle]
    /\ result = [t \in Threads |-> None]

\* thread t enters a query method
ConcCall(t) ==
    /\ call[t] = Idle
    /\ \E c \in IF program = "concurrent" THEN ConcCalls ELSE ConcAppCalls :
        call' = [call EXCEPT ![t] = c]
    /\ UNCHANGED <<program, df, symptom_freq, disease_categories, mlb, classifier, model, result>>

\* diagnose, first statement: classifier_results = self.predict_with_classifier(...)
ConcDiagnosePredict(t) ==
    /\ call[t].op = "diagnose" /\ call[t].pc = "called"
    /\ call' = [call EXCEPT ![t].pc = "classified",
                            ![t].classifier_results =
                                predict_with_classifier(call[t].input_symptoms)]
    /\ UNCHANGED <<program, df, symptom_freq, disease_categories, mlb, classifier, model, result>>

\* diagnose, second statement: similarity_results = self.similarity_search(..., top_n*2)
ConcDiagnoseSearch(t) ==
    /\ call[t].op = "diagnose" /\ call[t].pc = "classified"
    /\ call' = [call EXCEPT ![t].pc = "searched",
                            ![t].similarity_results =
                                similarity_search(call[t].input_symptoms, call[t].top_n * 2)]
    /\ UNCHANGED <<program, df, symptom_freq, disease_categories, mlb, classifier, model, result>>

\* diagnose, the rest: merge the two local lists, sort, slice and return
ConcDiagnoseMerge(t) ==
    /\ call[t].op = "diagnose" /\ call[t].pc = "searched"
    /\ call' = [call EXCEPT ![t].pc = "done"]
    /\ result' = [result EXCEPT ![t] =
                      List(Take(SortDescending(
                                    DictValues(Merged(call[t].classifier_results,
                                                      call[t].similarity_results)),
                                    Similarity),
                                call[t].top_n))]
    /\ UNCHANGED <<program, df, symptom_freq, disease_categories, mlb, classifier, model>>

ConcSimilaritySearch(t) ==
    /\ call[t].op = "similarity_search" /\ call[t].pc = "called"
    /\ call' = [call EXCEPT ![t].pc = "done"]
    /\ result' = [result EXCEPT ![t] =
                      List(similarity_search(call[t].input_symptoms, call[t].top_n))]
    /\ UNCHANGED <<program, df, symptom_freq, disease_categories, mlb, classifier, model>>

ConcPredictWithClassifier(t) ==
    /\ call[t].op = "predict_with_classifier" /\ call[t].pc = "called"
    /\ call' = [call EXCEPT ![t].pc = "done"]
    /\ result' = [result EXCEPT ![t] = predict_with_classifier(call[t].input_symptoms)]
    /\ UNCHANGED <<program, df, symptom_freq, disease_categories, mlb, classifier, model>>

\* mutant: get_symptom_suggestions counts each suggested token as seen once more
ConcGetSymptomSuggestions_Counting(t) ==
    /\ call[t].op = "get_symptom_suggestions" /\ call[t].pc = "called"
    /\ call' = [call EXCEPT ![t].pc = "done"]
    /\ result' = [result EXCEPT ![t] =
                      List(get_symptom_suggestions(call[t].prefix, call[t].max_suggestions))]
    /\ symptom_freq' =
          [i \in 1..Len(symptom_freq) |->
              IF symptom_freq[i][1] \in
                    ToSet(get_symptom_suggestions(call[t].prefix, call[t].max_suggestions))
              THEN <<symptom_freq[i][1], symptom_freq[i][2] + 1>>
              ELSE symptom_freq[i]]
    /\ UNCHANGED <<program, df, disease_categories, mlb, classifier, model>>

ConcGetSymptomSuggestions(t) ==
    /\ call[t].op = "get_symptom_suggestions" /\ call[t].pc = "called"
    /\ call' = [call EXCEPT ![t].pc = "done"]
    /\ result' = [result EXCEPT ![t] =
                      List(get_symptom_suggestions(call[t].prefix, call[t].max_suggestions))]
    /\ UNCHANGED <<program, df, symptom_freq, disease_categories, mlb, classifier, model>>

ConcGetDiseaseInfo(t) ==
    /\ call[t].op = "get_disease_info" /\ call[t].pc = "called"
    /\ call' = [call EXCEPT ![t].pc = "done"]
    /\ result' = [result EXCEPT ![t] = get_disease_info(call[t].disease_name)]
    /\ UNCHANGED <<program, df, symptom_freq, disease_categories, mlb, classifier, model>>

ConcAppDiagnose(t) ==
    /\ call[t].op = "app.diagnose" /\ call[t].pc = "called"
    /\ call' = [call EXCEPT ![t].pc = "done"]
    /\ result' = [result EXCEPT ![t] = List(App_diagnose(call[t].input_text, call[t].top_n))]
    /\ UNCHANGED <<program, df, symptom_freq, disease_categories, mlb, classifier, model>>

ConcAppGetSymptomSuggestions(t) ==
    /\ call[t].op = "app.get_symptom_suggestions" /\ call[t].pc = "called"
    /\ call' = [call EXCEPT ![t].pc = "done"]
    /\ result' = [result EXCEPT ![t] =
                      List(App_get_symptom_suggestions(call[t].prefix,
                                                       call[t].max_suggestions))]
    /\ UNCHANGED <<program, df, symptom_freq, disease_categories, mlb, classifier, model>>

\* thread t's caller takes the returned value
ConcReturn(t) ==
    /\ call[t] # Idle /\ call[t].pc = "done"
    /\ call' = [call EXCEPT ![t] = Idle]
    /\ result' = [result EXCEPT ![t] = None]
    /\ UNCHANGED <<program, df, symptom_freq, disease_categories, mlb, classifier, model>>

NextConc ==
    \E t \in Threads :
        \/ ConcCall(t)
        \/ ConcDiagnosePredict(t)
        \/ ConcDiagnoseSearch(t)
        \/ ConcDiagnoseMerge(t)
        \/ ConcSimilaritySearch(t)
        \/ ConcPredictWithClassifier(t)
        \/ ConcGetSymptomSuggestions(t)
        \/ ConcGetDiseaseInfo(t)
        \/ ConcAppDiagnose(t)
        \/ ConcAppGetSymptomSuggestions(t)
        \/ ConcReturn(t)

SpecConc == InitConc /\ [][NextConc]_vars

----------------------------------------------------------------------------
(* train_classifier statement by statement, with save_model, load_model and a
   query served meanwhile. In this specification the variable model holds the
   model_data that save_model dumped (None before the first dump). *)

\* the thread that runs train_classifier, save_model and load_model, and the thread
\* that serves a query
Roles == {"trainer", "server"}

\* MultiLabelBinarizer(): not fitted, it has no classes_
UnfittedMlb == [type |-> "mlb"]

\* RandomForestClassifier(n_estimators=100, ...): not fitted, it has no classes_
UnfittedForest == [type |-> "forest"]

\* sklearn's check_is_fitted: the estimator has its fitted attribute
IsFitted(estimator) == "classes_" \in DOMAIN estimator

\* an exception raised to the caller
Raise(exception) == [type |-> "raise", val |-> exception]

\* the inputs of the query served while the trainer runs
TrainQueryInputs == {<<>>, <<s_fever>>}

\* the catalogs trained on: one with fewer than 5 names of two rows, the smallest
\* with 5, and the largest of Datasets
StepDatasets ==
    {SubSeq(RowPool, 1, n) :
        n \in {4, 11, IF MaxRows < Len(RowPool) THEN MaxRows ELSE Len(RowPool)}}

\* __init__ has returned, nothing is dumped, no call is in progress
InitSteps ==
    /\ program = "steps"
    /\ \E rows \in StepDatasets, h \in HashOrders :
        /\ df = load_and_preprocess(rows, h)
        /\ symptom_freq = calculate_symptom_frequency(load_and_preprocess(rows, h))
        /\ disease_categories = categorize_diseases(load_and_preprocess(rows, h))
    /\ mlb = None
    /\ classifier = None
    /\ model = None
    /\ call = [r \in Roles |-> Idle]
    /\ result = [r \in Roles |-> None]

\* the trainer enters train_classifier
StepCall ==
    /\ call["trainer"] = Idle
    /\ call' = [call EXCEPT !["trainer"] = [op |-> "train_classifier", pc |-> "called"]]
    /\ UNCHANGED <<program, df, symptom_freq, disease_categories, mlb, classifier, model,
                   result>>

\* disease_counts, common_diseases and the test len(common_diseases) < 5: return False
StepSkipped ==
    /\ call["trainer"].op = "train_classifier" /\ call["trainer"].pc = "called"
    /\ Cardinality(common_diseases) < MinCommonDiseases
    /\ call' = [call EXCEPT !["trainer"].pc = "done"]
    /\ result' = [result EXCEPT !["trainer"] = Bool(FALSE)]
    /\ UNCHANGED <<program, df, symptom_freq, disease_categories, mlb, classifier, model>>

\* the test passes; filtered_df = self.df[...]
StepFiltered ==
    /\ call["trainer"].op = "train_classifier" /\ call["trainer"].pc = "called"
    /\ Cardinality(common_diseases) >= MinCommonDiseases
    /\ call' = [call EXCEPT !["trainer"].pc = "filtered"]
    /\ UNCHANGED <<program, df, symptom_freq, disease_categories, mlb, classifier, model,
                   result>>

\* self.mlb = MultiLabelBinarizer()
StepNewMlb ==
    /\ call["trainer"].op = "train_classifier" /\ call["trainer"].pc = "filtered"
    /\ mlb' = UnfittedMlb
    /\ call' = [call EXCEPT !["trainer"].pc = "mlb created"]
    /\ UNCHANGED <<program, df, symptom_freq, disease_categories, classifier, model, result>>

\* X = self.mlb.fit_transform(filtered_df['Symptoms']), y, and the train-test split
StepFitMlb ==
    /\ call["trainer"].op = "train_classifier" /\ call["trainer"].pc = "mlb created"
    /\ mlb' = FittedMlb
    /\ call' = [call EXCEPT !["trainer"].pc = "split"]
    /\ UNCHANGED <<program, df, symptom_freq, disease_categories, classifier, model, result>>

\* self.classifier = RandomForestClassifier(...)
StepNewClassifier ==
    /\ call["trainer"].op = "train_classifier" /\ call["trainer"].pc = "split"
    /\ classifier' = UnfittedForest
    /\ call' = [call EXCEPT !["trainer"].pc = "classifier created"]
    /\ UNCHANGED <<program, df, symptom_freq, disease_categories, mlb, model, result>>

\* self.classifier.fit(X_train, y_train)
StepFit ==
    /\ call["trainer"].op = "train_classifier" /\ call["trainer"].pc = "classifier created"
    /\ classifier' \in FittedForests
    /\ call' = [call EXCEPT !["trainer"].pc = "fitted"]
    /\ UNCHANGED <<program, df, symptom_freq, disease_categories, mlb, model, result>>

\* the evaluation and return True
StepTrained ==
    /\ call["trainer"].op = "train_classifier" /\ call["trainer"].pc = "fitted"
    /\ call' = [call EXCEPT !["trainer"].pc = "done"]
    /\ result' = [result EXCEPT !["trainer"] = Bool(TRUE)]
    /\ UNCHANGED <<program, df, symptom_freq, disease_categories, mlb, classifier, model>>

\* save_model: joblib.dump(model_data, filepath)
SaveModel ==
    /\ call["trainer"] = Idle
    /\ model' = [type |-> "model_data", df |-> df, symptom_freq |-> symptom_freq,
                 disease_categories |-> disease_categories, mlb |-> mlb,
                 classifier |-> classifier]
    /\ call' = [call EXCEPT !["trainer"] = [op |-> "save_model", pc |-> "done"]]
    /\ UNCHANGED <<program, df, symptom_freq, disease_categories, mlb, classifier, result>>

\* load_model: the instance the server uses from now on has the dumped attributes
LoadModel ==
    /\ call["trainer"] = Idle
    /\ model.type = "model_data"
    /\ df' = model.df
    /\ symptom_freq' = model.symptom_freq
    /\ disease_categories' = model.disease_categories
    /\ mlb' = model.mlb
    /\ classifier' = model.classifier
    /\ call' = [call EXCEPT !["trainer"] = [op |-> "load_model", pc |-> "done"]]
    /\ UNCHANGED <<program, model, result>>

\* predict_with_classifier as the server thread runs it on the attributes it finds:
\* mlb.transform and predict_proba raise NotFittedError on an estimator not fitted
StepPredictWithClassifier ==
    /\ call["server"] = Idle
    /\ \E input_symptoms \in TrainQueryInputs :
        /\ call' = [call EXCEPT !["server"] =
                        [op |-> "predict_with_classifier", pc |-> "done",
                         input_symptoms |-> input_symptoms]]
        /\ result' = [result EXCEPT !["server"] =
                          IF classifier.type = "none" THEN None
                          ELSE IF mlb.type = "none" THEN Raise("AttributeError")
                          ELSE IF ~IsFitted(mlb) \/ ~IsFitted(classifier)
                               THEN Raise("NotFittedError")
                          ELSE predict_with_classifier(input_symptoms)]
    /\ UNCHANGED <<program, df, symptom_freq, disease_categories, mlb, classifier, model>>

\* the caller of role r takes the returned value
StepReturn(r) ==
    /\ call[r] # Idle /\ call[r].pc = "done"
    /\ call' = [call EXCEPT ![r] = Idle]
    /\ result' = [result EXCEPT ![r] = None]
    /\ UNCHANGED <<program, df, symptom_freq, disease_categories, mlb, classifier, model>>

NextSteps ==
    \/ StepCall
    \/ StepSkipped
    \/ StepFiltered
    \/ StepNewMlb
    \/ StepFitMlb
    \/ StepNewClassifier
    \/ StepFit
    \/ StepTrained
    \/ SaveModel
    \/ LoadModel
    \/ StepPredictWithClassifier
    \/ \E r \in Roles : StepReturn(r)

SpecSteps == InitSteps /\ [][NextSteps]_vars

----------------------------------------------------------------------------
(* Properties *)

\* the calls that return a list of diagnosis results
ScoringOps == {"diagnose", "similarity_search", "predict_with_classifier", "app.diagnose"}

\* the results the last call returned (none when it returned None)
Returned == IF result.type = "list" THEN result.val ELSE <<>>

\* the token set a weighted-mode query is scored with
QueryTokens(input_symptoms) == {lower(strip(input_symptoms[i])) : i \in 1..Len(input_symptoms)}

\* C1: no result returned by diagnose (either mode), similarity_search or
\* predict_with_classifier has a score <= 0.1
C1_ThresholdExclusion ==
    call.op \in ScoringOps =>
        \A i \in 1..Len(Returned) : ~(Returned[i].similarity <= Scale \div 10)

\* C1 witness: the classifier gave its third disease exactly 0.1, and it was dropped
C1_Witness ==
    /\ call.op = "predict_with_classifier"
    /\ classifier.type = "forest"
    /\ classifier.shape = <<600000, 300000, 100000>>
    /\ Len(Returned) = 2

\* C2: the sequence diagnose returns is non-increasing in score, in both modes
C2_RankingOrder ==
    call.op \in {"diagnose", "app.diagnose"} =>
        \A i \in 1..(Len(Returned) - 1) : Returned[i].similarity >= Returned[i + 1].similarity

\* C2 witness: a merged list where a similarity result ranks above a classification
\* result that was merged before it
C2_Witness ==
    /\ call.op = "diagnose"
    /\ Len(Returned) >= 2
    /\ Returned[1].method = "similarity"
    /\ Returned[2].method = "classification"
    /\ Returned[1].similarity > Returned[2].similarity

\* the classifier list of the last diagnose call
ClassifierList ==
    IF call.classifier_results.type = "list" THEN call.classifier_results.val ELSE <<>>

\* the best similarity score for a name in the similarity list of the last diagnose call
BestSimilarity(name) ==
    LET scores == {call.similarity_results[i].similarity :
                      i \in {j \in 1..Len(call.similarity_results) :
                                call.similarity_results[j].disease = name}}
    IN  CHOOSE s \in scores : \A t \in scores : s >= t

InClassifierList(name) == \E i \in 1..Len(ClassifierList) : ClassifierList[i].disease = name
InSimilarityList(name) ==
    \E i \in 1..Len(call.similarity_results) : call.similarity_results[i].disease = name
ClassifierResultFor(name) ==
    ClassifierList[CHOOSE i \in 1..Len(ClassifierList) : ClassifierList[i].disease = name]

\* C3: the merged mapping holds exactly one result per disease name of either list;
\* for a name in both lists it is the classifier result unless the similarity score
\* is strictly greater, and then it is the similarity result with that score
C3_MergeRule ==
    call.op = "diagnose" =>
        LET all == call.all_results
            names == {ClassifierList[i].disease : i \in 1..Len(ClassifierList)}
                     \cup {call.similarity_results[i].disease :
                              i \in 1..Len(call.similarity_results)}
        IN  /\ {all[k][1] : k \in 1..Len(all)} = names
            /\ \A j, k \in 1..Len(all) : all[j][1] = all[k][1] => j = k
            /\ \A k \in 1..Len(all) :
                LET name == all[k][1]
                    kept == all[k][2]
                IN  /\ kept.disease = name
                    /\ IF InClassifierList(name)
                          /\ (InSimilarityList(name) =>
                                ~(BestSimilarity(name) > ClassifierResultFor(name).similarity))
                       THEN kept = ClassifierResultFor(name)
                       ELSE /\ kept.method = "similarity"
                            /\ kept.similarity = BestSimilarity(name)
                            /\ \E i \in 1..Len(call.similarity_results) :
                                  call.similarity_results[i] = kept

\* C3 witness: a name in both lists whose similarity score is strictly greater, so
\* the similarity result replaced the classifier result
C3_Witness ==
    /\ call.op = "diagnose"
    /\ \E k \in 1..Len(call.all_results) :
        /\ InClassifierList(call.all_results[k][1])
        /\ InSimilarityList(call.all_results[k][1])
        /\ call.all_results[k][2].method = "similarity"
        /\ call.all_results[k][2].similarity
              > ClassifierResultFor(call.all_results[k][1]).similarity

\* C3, the equal-score case: a name in both lists with equal scores keeps the
\* classifier result
C3_TieKeepsClassifier ==
    /\ call.op = "diagnose"
    /\ \E k \in 1..Len(call.all_results) :
        /\ InClassifierList(call.all_results[k][1])
        /\ InSimilarityList(call.all_results[k][1])
        /\ BestSimilarity(call.all_results[k][1])
              = ClassifierResultFor(call.all_results[k][1]).similarity
        /\ call.all_results[k][2].method = "classification"

\* the live-query text of Scenario A
ScenarioAText == Str(join(<<s_cough, s_runny_nose, s_sneezing>>, <<",", " ">>))

\* whether the query of the last diagnose call has no token, or none that a
\* catalog record has
NoKnownToken ==
    IF call.op = "diagnose"
    THEN \A i \in 1..Len(df) : QueryTokens(call.input_symptoms) \cap ToSet(df[i].Symptoms) = {}
    ELSE model.type = "none"
         \/ \A i \in 1..Len(model.disease_data) :
               clean_input_symptoms(call.input_text) \cap ToSet(model.disease_data[i].Symptoms) = {}

\* C4: for an input whose normalized token set is empty or shares no token with any
\* catalog record, diagnose returns the empty sequence, in both modes and whether or
\* not a classifier has been trained
C4_EmptyForUnknownInput ==
    call.op \in {"diagnose", "app.diagnose"} /\ NoKnownToken => Returned = <<>>

\* C4, where it holds: simple mode, and weighted mode with no classifier
C4_EmptyWithoutClassifier ==
    call.op \in {"diagnose", "app.diagnose"} /\ NoKnownToken /\ classifier.type = "none"
        => Returned = <<>>

\* whether the train.py catalog is the two records of Scenario A
IsScenarioACatalog ==
    /\ Len(df) = 2
    /\ df[1].Name = n_Common_Cold
    /\ ToSet(df[1].Symptoms)
          = {s_cough, s_runny_nose, s_sneezing, s_sore_throat, s_fatigue, s_mild_fever}
    /\ df[2].Name = n_Influenza
    /\ ToSet(df[2].Symptoms)
          = {s_fever, s_body_aches, s_fatigue, s_cough, s_headache, s_chills, s_sore_throat}

\* whether the last call is the query of Scenario A against the catalog of Scenario A
ScenarioAQuery ==
    \/ /\ call.op \in {"diagnose", "similarity_search"}
       /\ IsScenarioACatalog
       /\ call.input_symptoms = <<s_cough, s_runny_nose, s_sneezing>>
       /\ call.top_n >= 1
    \/ /\ call.op = "app.diagnose"
       /\ model.type = "dict"
       /\ model.disease_data = SubSeq(disease_data, 1, 2)
       /\ call.input_text = ScenarioAText
       /\ call.top_n >= 1

\* the token set the last scoring call matched against the catalog
MatchedTokens ==
    IF call.op = "app.diagnose" THEN clean_input_symptoms(call.input_text)
    ELSE QueryTokens(call.input_symptoms)

IsSimilarityResult(r) == call.op = "app.diagnose" \/ r.method = "similarity"

\* C5: Scenario A returns Common Cold first with match_count = 3, and every
\* similarity result's match_count is |I \cap D| and the size of its matching_symptoms
C5_ScenarioA ==
    /\ ScenarioAQuery =>
          /\ Len(Returned) >= 1
          /\ Returned[1].disease = n_Common_Cold
          /\ Returned[1].match_count = 3
    /\ call.op \in {"diagnose", "similarity_search", "app.diagnose"} =>
          \A i \in 1..Len(Returned) :
              IsSimilarityResult(Returned[i]) =>
                  /\ Returned[i].match_count
                        = Cardinality(MatchedTokens \cap ToSet(Returned[i].all_symptoms))
                  /\ Returned[i].match_count = Cardinality(Returned[i].matching_symptoms)

\* C5 witness: Scenario A was queried in simple mode and both records were returned
C5_Witness ==
    /\ ScenarioAQuery
    /\ call.op = "app.diagnose"
    /\ Len(Returned) = 2
    /\ Returned[2].disease = n_Influenza

SuggestOps == {"get_symptom_suggestions", "app.get_symptom_suggestions"}

\* the prefix of the last suggestion call, trimmed and lowercased
TrimmedPrefix == lower(strip(call.prefix))

\* C6: for a prefix whose trimmed length is less than 2, both get_symptom_suggestions
\* implementations return the empty sequence
C6_ShortPrefixEmpty ==
    call.op \in SuggestOps /\ Len(TrimmedPrefix) < 2 => Returned = <<>>

\* C6, where it holds: app.py
C6_ShortPrefixEmptyInApp ==
    call.op = "app.get_symptom_suggestions" /\ Len(TrimmedPrefix) < 2 => Returned = <<>>

\* the frequency index of Scenario D
ScenarioDIndex == << <<s_fever, 160>>, <<s_fatigue, 250>> >>

ScenarioDQuery ==
    /\ call.op = "app.get_symptom_suggestions"
    /\ symptom_freq = ScenarioDIndex
    /\ call.prefix = <<"f", "e">>
    /\ call.max_suggestions >= 2

\* C7 as stated: prefix "fe" against {fever:160, fatigue:250} returns ["fatigue", "fever"]
C7_ScenarioD_AsStated == ScenarioDQuery => Returned = <<s_fatigue, s_fever>>

\* C7 as amended: prefix "fe" against {fever:160, fatigue:250} returns ["fever"],
\* and no call with prefix "fe" suggests fatigue
C7_ScenarioD ==
    /\ ScenarioDQuery => Returned = <<s_fever>>
    /\ call.op \in SuggestOps /\ call.prefix = <<"f", "e">> =>
          \A i \in 1..Len(Returned) : Returned[i] # s_fatigue

\* C7 witness: Scenario D was queried
C7_Witness == ScenarioDQuery /\ Returned = <<s_fever>>

\* the positions in the frequency index of the tokens that start with the prefix
Matching == {i \in 1..Len(symptom_freq) : startswith(symptom_freq[i][1], TrimmedPrefix)}

\* whether index entry i is suggested before index entry j
SuggestedBefore(i, j) ==
    \/ symptom_freq[i][2] > symptom_freq[j][2]
    \/ symptom_freq[i][2] = symptom_freq[j][2] /\ i < j

C8_TieInInsertionOrder ==
    /\ call.op \in SuggestOps
    /\ Len(TrimmedPrefix) >= 2
    /\ Len(Returned) = 2
    /\ \E i, j \in Matching :
          /\ i < j /\ symptom_freq[i][2] = symptom_freq[j][2]
          /\ Returned[1] = symptom_freq[i][1] /\ Returned[2] = symptom_freq[j][1]

\* C9: re-normalizing the comma-joined output of either normalizer returns the
\* same token set
C9_NormalizationIdempotent ==
    call.op \in {"clean_input_symptoms", "clean_symptoms"} => call.again = result.val

\* the names that occur in at least two rows of the catalog
RepeatedNames ==
    {df[i].Name : i \in {k \in 1..Len(df) : \E j \in 1..Len(df) : j # k /\ df[j].Name = df[k].Name}}

\* C10: unless the catalog has at least 5 distinct names that each occur in >= 2 rows,
\* train_classifier returns False and leaves mlb and classifier unset,
\* predict_with_classifier yields no results, and diagnose returns only
\* method=similarity results
C10_ClassifierInactive ==
    program = "train" /\ Cardinality(RepeatedNames) < 5 =>
        /\ mlb = None
        /\ classifier = None
        /\ call.op = "train_classifier" => result = Bool(FALSE)
        /\ call.op = "predict_with_classifier" => result = None
        /\ call.op = "diagnose" =>
              \A i \in 1..Len(Returned) : Returned[i].method = "similarity"

\* C10 witness: train_classifier was skipped on a catalog with 4 repeated names
C10_Witness ==
    /\ program = "train"
    /\ Cardinality(RepeatedNames) = 4
    /\ call.op = "train_classifier"
    /\ result = Bool(FALSE)

\* the positions of the catalog rows whose name equals the looked-up name ignoring case
NameMatches == {i \in 1..Len(df) : lower(df[i].Name) = lower(call.disease_name)}

FirstNameMatch == CHOOSE i \in NameMatches : \A j \in NameMatches : i <= j

\* C11: get_disease_info returns, for a name equal ignoring case to a catalog record's
\* name, the name, symptoms, treatments and category of the first such record, and
\* the not-found value for any other name
C11_Lookup ==
    call.op = "get_disease_info" =>
        IF NameMatches = {} THEN result = None
        ELSE /\ result.type = "dict"
             /\ result.val.name = df[FirstNameMatch].Name
             /\ result.val.symptoms = df[FirstNameMatch].Symptoms
             /\ result.val.treatments = df[FirstNameMatch].Treatments
             /\ result.val.category = CategoryOf(df[FirstNameMatch].Symptoms)

\* C11, where it holds: everything but the category of the record found
C11_LookupExceptCategory ==
    call.op = "get_disease_info" =>
        IF NameMatches = {} THEN result = None
        ELSE /\ result.type = "dict"
             /\ result.val.name = df[FirstNameMatch].Name
             /\ result.val.symptoms = df[FirstNameMatch].Symptoms
             /\ result.val.treatments = df[FirstNameMatch].Treatments
             /\ result.val.category = DictGet(disease_categories, df[FirstNameMatch].Name, "Other")
\* the fields of a DiagnosisResult
ResultFields ==
    {"disease", "similarity", "matching_symptoms", "all_symptoms", "treatments",
     "category", "match_count", "method"}

\* C12: every result returned by diagnose, in either mode and from either path,
\* carries all of the fields disease, score, matching_symptoms, all_symptoms,
\* treatments, category, match_count and method, with method classification or similarity
C12_ResultFields ==
    call.op \in {"diagnose", "app.diagnose"} =>
        \A i \in 1..Len(Returned) :
            /\ ResultFields \subseteq DOMAIN Returned[i]
            /\ Returned[i].method \in {"classification", "similarity"}

\* C12, where it holds: the results of the weighted-mode similarity path
C12_SimilarityResultFields ==
    call.op \in {"diagnose", "similarity_search"} =>
        \A i \in 1..Len(Returned) :
            Returned[i].method = "similarity" => ResultFields \subseteq DOMAIN Returned[i]
\* what the call of thread t returns when it runs alone on the system
Alone(t) ==
    CASE call[t].op = "diagnose" ->
            List(diagnose(call[t].input_symptoms, call[t].top_n))
      [] call[t].op = "similarity_search" ->
            List(similarity_search(call[t].input_symptoms, call[t].top_n))
      [] call[t].op = "predict_with_classifier" ->
            predict_with_classifier(call[t].input_symptoms)
      [] call[t].op = "get_symptom_suggestions" ->
            List(get_symptom_suggestions(call[t].prefix, call[t].max_suggestions))
      [] call[t].op = "get_disease_info" ->
            get_disease_info(call[t].disease_name)
      [] call[t].op = "app.diagnose" ->
            List(App_diagnose(call[t].input_text, call[t].top_n))
      [] call[t].op = "app.get_symptom_suggestions" ->
            List(App_get_symptom_suggestions(call[t].prefix, call[t].max_suggestions))

\* whether thread t's call has returned
Done(t) == call[t] # Idle /\ call[t].pc = "done"

\* C13: after initialization no step of a query call changes the catalog, the
\* frequency index, the category map, the classifier or the app's model, and under
\* every interleaving each call returns what it returns when run alone
C13_QueriesReadOnly ==
    /\ [](\A t \in Threads : Done(t) => result[t] = Alone(t))
    /\ [][UNCHANGED <<df, symptom_freq, disease_categories, mlb, classifier, model>>]_vars

\* C13 witness: a diagnose call that mixes classification and similarity results has
\* returned while the other thread is between the statements of its own diagnose
C13_Witness ==
    \E t, u \in Threads :
        /\ t # u
        /\ Done(t) /\ call[t].op = "diagnose"
        /\ \E i, j \in 1..Len(result[t].val) :
              /\ result[t].val[i].method = "classification"
              /\ result[t].val[j].method = "similarity"
        /\ call[u] # Idle /\ call[u].op = "diagnose" /\ call[u].pc = "classified"
\* the token list a scoring call scores with: the stripped, lowercased input in
\* weighted mode, the normalized tokens in simple mode (in the order of one listing)
ScoredInput ==
    IF call.op = "app.diagnose" THEN SortedStrs(clean_input_symptoms(call.input_text))
    ELSE [i \in 1..Len(call.input_symptoms) |-> lower(strip(call.input_symptoms[i]))]

\* the symptom lists of the records a scoring call scores: those that are not empty
ScoredRecords ==
    IF call.op = "app.diagnose"
    THEN IF model.type = "none" \/ ScoredInput = <<>> THEN {}
         ELSE {model.disease_data[i].Symptoms : i \in 1..Len(model.disease_data)} \ {<<>>}
    ELSE {df[i].Symptoms : i \in 1..Len(df)} \ {<<>>}

\* the score a scoring call computes from the sizes of the intersection and the
\* union, the input list and the sum of the specificity terms
ComputedScore(intersection, union, input, weights) ==
    IF call.op = "app.diagnose"
    THEN simple_score(intersection, union, weights)
    ELSE weighted_score(jaccard_sim(intersection, union), coverage(intersection, input),
                        weights)

\* C14: in both scoring modes and for every record scored, no division has a zero
\* denominator and every score is >= 0: Jaccard is 0 for an empty union and lies in
\* [0,1], coverage is 0 for an empty input, and each specificity term divides by
\* log(frequency + 1) with frequency >= 1
C14_NumericGuards ==
    /\ jaccard_sim(0, 0) = 0
    /\ call.op \in {"diagnose", "similarity_search", "app.diagnose"} =>
          LET input == ScoredInput
              tokens == ToSet(input)
          IN  \A D \in ScoredRecords :
                  LET intersection == Cardinality(tokens \cap ToSet(D))
                      union == Cardinality(tokens \cup ToSet(D))
                      score == ComputedScore(intersection, union, input,
                                             symptom_weights(D, tokens))
                  IN  /\ union > 0
                      /\ jaccard_sim(intersection, union) \in 0..Scale
                      /\ call.op # "app.diagnose" =>
                            /\ coverage(intersection, input) >= 0
                            /\ coverage(intersection, input) <= Scale
                            /\ input = <<>> => coverage(intersection, input) = 0
                      /\ \A k \in 1..Len(D) :
                            D[k] \in tokens => DictGet(symptom_freq, D[k], 1) >= 1
                      /\ score >= 0
                      /\ \A i \in 1..Len(Returned) :
                            IsSimilarityResult(Returned[i]) /\ Returned[i].all_symptoms = D
                                => Returned[i].similarity = score

\* C14 witness: weighted mode scored a record against the empty input
C14_Witness ==
    /\ call.op = "similarity_search"
    /\ call.input_symptoms = <<>>
    /\ ScoredRecords # {}

\* C14, the default frequency: simple mode scored a token that the index does not hold
C14_AbsentTokenScored ==
    /\ call.op = "app.diagnose"
    /\ \E D \in ScoredRecords : \E k \in 1..Len(D) :
          D[k] \in ToSet(ScoredInput) /\ ~DictHas(symptom_freq, D[k])
    /\ Returned # <<>>
NormalizerOps == {"clean_input_symptoms", "clean_symptoms"}

\* C15: every token either normalizer produces is lowercase, contains no punctuation,
\* has no leading or trailing whitespace and has length > 2
C15_TokenInvariants ==
    call.op \in NormalizerOps =>
        \A token \in result.val :
            /\ lower(token) = token
            /\ \A k \in 1..Len(token) : IsWord(token[k]) \/ IsSpace(token[k])
            /\ strip(token) = token
            /\ Len(token) > 2

\* C15, where it holds: everything but the trimming
C15_TokenInvariantsUntrimmed ==
    call.op \in NormalizerOps =>
        \A token \in result.val :
            /\ lower(token) = token
            /\ \A k \in 1..Len(token) : IsWord(token[k]) \/ IsSpace(token[k])
            /\ Len(token) > 2
\* the stop words: and, or, the, of, in, to, with, without, due, such, as
StopWordList ==
    { <<"a", "n", "d">>,
      <<"o", "r">>,
      <<"t", "h", "e">>,
      <<"o", "f">>,
      <<"i", "n">>,
      <<"t", "o">>,
      <<"w", "i", "t", "h">>,
      <<"w", "i", "t", "h", "o", "u", "t">>,
      <<"d", "u", "e">>,
      <<"s", "u", "c", "h">>,
      <<"a", "s">> }

\* the pieces of the raw text of the last normalizer call, each trimmed, lowercased
\* and with its punctuation removed
NormalizedPieces ==
    IF call.text.type # "str" THEN {}
    ELSE {StripPunctuation(lower(strip(split(call.text.val, ",")[i]))) :
             i \in 1..Len(split(call.text.val, ","))}

\* C16: the training-data path removes every piece equal to a stop word, the
\* live-query path applies no stop-word filter and retains such a piece
C16_StopWordAsymmetry ==
    /\ call.op = "clean_symptoms" =>
          result.val = {p \in NormalizedPieces : Len(p) > 2 /\ p \notin StopWordList}
    /\ call.op = "clean_input_symptoms" =>
          result.val = {p \in NormalizedPieces : Len(p) > 2}

\* C16 witness: the training-data path removed the pieces "the" and "due" and kept another
C16_Witness ==
    /\ call.op = "clean_symptoms"
    /\ {s_the, <<"d", "u", "e">>} \subseteq NormalizedPieces
    /\ result.val = {s_cough}

\* C16, the other path: the live-query path retained "the" and "due"
C16_LiveKeepsStopWords ==
    /\ call.op = "clean_input_symptoms"
    /\ result.val = {s_the, <<"d", "u", "e">>, s_cough}
\* the names, scores and match counts of a result sequence
NameScoreCount(results) ==
    [i \in 1..Len(results) |->
        <<results[i].disease, results[i].similarity,
          IF "match_count" \in DOMAIN results[i] THEN results[i].match_count ELSE 0>>]

\* C17: diagnose returns the same names, scores and match counts when any input
\* symptom is given twice, in simple mode and in weighted mode
C17_DuplicateInputCountsOnce ==
    /\ call.op = "diagnose" =>
          \A k \in 1..Len(call.input_symptoms) :
              NameScoreCount(diagnose(Append(call.input_symptoms, call.input_symptoms[k]),
                                      call.top_n))
                  = NameScoreCount(Returned)
    /\ call.op = "app.diagnose" /\ call.input_text.type = "str" =>
          NameScoreCount(App_diagnose(Str(call.input_text.val \o <<",">> \o call.input_text.val),
                                      call.top_n))
              = NameScoreCount(Returned)

\* C17, where it holds: simple mode
C17_DuplicateInputCountsOnceInApp ==
    call.op = "app.diagnose" /\ call.input_text.type = "str" =>
        NameScoreCount(App_diagnose(Str(call.input_text.val \o <<",">> \o call.input_text.val),
                                    call.top_n))
            = NameScoreCount(Returned)
\* whether the category reported by the last call for each record is the one the
\* keyword scan gives for that record's own symptoms
CategoryIsOwn ==
    /\ call.op \in {"similarity_search", "diagnose"} =>
          \A i \in 1..Len(Returned) :
              Returned[i].method = "similarity" =>
                  Returned[i].category = CategoryOf(Returned[i].all_symptoms)
    /\ call.op = "get_disease_info" /\ result.type = "dict" =>
          result.val.category = CategoryOf(result.val.symptoms)

\* C18: the category reported for a catalog record, in its similarity result and by
\* lookup, is the first category in table order with a keyword that is a substring
\* of that record's own joined symptom text, or Other, also when records share a name
C18_CategoryOfRecord == CategoryIsOwn

\* C18, where it holds: catalogs in which no two records share a name
C18_CategoryWhenNamesUnique ==
    (\A i, j \in 1..Len(df) : df[i].Name = df[j].Name => i = j) => CategoryIsOwn
\* the probability the fitted classifier gives each class for the input of the last call
ClassProbabilities == predict_proba(transform(call.input_symptoms))

\* the classes whose probability is > 0.1
LikelyClasses ==
    {c \in 1..Len(classifier.classes_) : ClassProbabilities[c] > Scale \div 10}

\* the number of classes more probable than class c
MoreProbable(c) ==
    Cardinality({d \in 1..Len(classifier.classes_) :
                    ClassProbabilities[d] > ClassProbabilities[c]})

\* the first catalog row with a name
FirstRowNamed(name) ==
    df[CHOOSE i \in 1..Len(df) : df[i].Name = name /\ \A j \in 1..Len(df) : df[j].Name = name => i <= j]

\* C19: with a trained classifier predict_with_classifier returns at most 3 results,
\* those among the 3 most probable names whose probability is > 0.1, each tagged
\* classification and carrying the treatments and symptoms of the first row of that name
C19_ClassifierTopThree ==
    call.op = "predict_with_classifier" /\ classifier.type = "forest" =>
        /\ result.type = "list"
        /\ Len(Returned) <= 3
        /\ Len(Returned) = IF Cardinality(LikelyClasses) < 3
                           THEN Cardinality(LikelyClasses) ELSE 3
        /\ \A i, j \in 1..Len(Returned) : Returned[i].disease = Returned[j].disease => i = j
        /\ \A i \in 1..Len(Returned) :
              /\ Returned[i].method = "classification"
              /\ \E c \in LikelyClasses :
                    /\ classifier.classes_[c] = Returned[i].disease
                    /\ ClassProbabilities[c] = Returned[i].similarity
                    /\ MoreProbable(c) < 3
              /\ Returned[i].treatments = FirstRowNamed(Returned[i].disease).Treatments
              /\ Returned[i].symptoms = FirstRowNamed(Returned[i].disease).Symptoms
        /\ \A c \in LikelyClasses :
              Cardinality({d \in 1..Len(classifier.classes_) :
                              d # c /\ ClassProbabilities[d] >= ClassProbabilities[c]}) < 3
                  => \E i \in 1..Len(Returned) : Returned[i].disease = classifier.classes_[c]

\* C19 witness: four classes have a probability > 0.1 and three results are returned
C19_Witness ==
    /\ call.op = "predict_with_classifier" /\ classifier.type = "forest"
    /\ Cardinality(LikelyClasses) > 3
    /\ Len(Returned) = 3

\* C19, the threshold: a class among the 3 most probable has probability 0.1 and
\* is left out
C19_TopThreeAtThresholdLeftOut ==
    /\ call.op = "predict_with_classifier" /\ classifier.type = "forest"
    /\ Len(Returned) = 2
    /\ \E c \in 1..Len(classifier.classes_) :
          ClassProbabilities[c] = Scale \div 10 /\ MoreProbable(c) = 2
\* the results of a sequence that are the first of their disease name
FirstPerName(results) ==
    LET first == {i \in 1..Len(results) :
                     \A j \in 1..(i - 1) : results[j].disease # results[i].disease}
    IN  [k \in 1..Cardinality(first) |->
            results[CHOOSE i \in first : Cardinality({j \in first : j < i}) = k - 1]]

\* a diagnose call was made with no classifier trained
UntrainedDiagnose == call.op = "diagnose" /\ classifier.type = "none"

\* C20 as stated: with no classifier trained, diagnose(I, N) returns exactly the
\* sequence similarity_search(I, N), also for catalogs whose rows share a name
C20_AsStated ==
    UntrainedDiagnose => Returned = similarity_search(call.input_symptoms, call.top_n)

\* C20 as amended: with no classifier trained, diagnose(I, N) returns the first N of
\* the results of similarity_search(I, 2N) that are the first of their disease name;
\* this is similarity_search(I, N) when no two of those results share a name
C20_DiagnoseIsSimilarityPerName ==
    UntrainedDiagnose =>
        LET similar == similarity_search(call.input_symptoms, call.top_n * 2)
        IN  /\ Returned = Take(FirstPerName(similar), call.top_n)
            /\ FirstPerName(similar) = similar
                  => Returned = similarity_search(call.input_symptoms, call.top_n)

\* C20 witness: two rows of one name were scored and diagnose returned one of them
C20_Witness ==
    /\ UntrainedDiagnose
    /\ Len(similarity_search(call.input_symptoms, call.top_n)) = 2
    /\ Len(Returned) = 1
\* the disease names of a sequence of results
NamesOf(results) == {results[i].disease : i \in 1..Len(results)}

\* the smaller of two numbers
Min(a, b) == IF a < b THEN a ELSE b

\* the names with an above-threshold result from the classifier or from any catalog
\* row under similarity scoring, for the input of the last diagnose call
EligibleNames ==
    NamesOf(IF call.classifier_results.type = "list" THEN call.classifier_results.val
            ELSE <<>>)
    \cup NamesOf(similarity_search(call.input_symptoms, Len(df)))

\* C21: diagnose(I, N) returns exactly min(N, k) results, k being the number of
\* distinct disease names with an above-threshold result from the classifier or from
\* any catalog row under similarity scoring
C21_ResultCount ==
    call.op = "diagnose" => Len(Returned) = Min(call.top_n, Cardinality(EligibleNames))

\* C21, where it holds: k counted over the classifier's results and the 2N
\* similarity candidates diagnose asks for
C21_ResultCountOfCandidates ==
    call.op = "diagnose" =>
        Len(Returned) =
            Min(call.top_n,
                Cardinality(NamesOf(IF call.classifier_results.type = "list"
                                    THEN call.classifier_results.val ELSE <<>>)
                            \cup NamesOf(call.similarity_results)))
\* a classifier that is set goes with a binarizer that is set and fitted, and is fitted
ClassifierUsable ==
    classifier # None => mlb # None /\ IsFitted(mlb) /\ IsFitted(classifier)

\* C22: in every state reached through construction, train_classifier and load_model,
\* the states between the statements of train_classifier included, a classifier that
\* is not None implies that mlb is set and the classifier is fitted, and no query
\* runs mlb.transform or predict_proba on an estimator that is not fitted
C22_ClassifierImpliesFitted ==
    /\ ClassifierUsable
    /\ result["server"].type # "raise"

\* C22, where it holds: the states in which no train_classifier call is in progress
C22_FittedBetweenCalls ==
    call["trainer"] = Idle \/ call["trainer"].pc = "done" => ClassifierUsable
====
